---- MODULE Spec2Model ----
(***************************************************************************)
(* Model of the id-addressable heap Heap_Id<Element> of TD6/heap_id.hpp.   *)
(*                                                                         *)
(* The heap is one object: the array `elements` of Node = (pointer to the  *)
(* caller's element, id), the counter nb_elem, and the two auxiliary       *)
(* arrays id_to_pos and id_free.  Each public method is one action.  The   *)
(* asserts of the header are live (NDEBUG is undefined before assert.h is  *)
(* included, line 18): an assert that fails ends the process, which the    *)
(* model records as status = "aborted".                                    *)
(*                                                                         *)
(* The header writes *(elements[pos]) in lower and raise and *min in pop;  *)
(* a Node is a pair, and the element is its .first, as lt and le spell it  *)
(* out: the model reads these as *(elements[pos].first).                   *)
(***************************************************************************)
EXTENDS Integers, Sequences, FiniteSets, Bags, TLC

\* ---------------------------------------------------------------- bounds

\* Largest capacity a heap is constructed with.
MaxCapacity == 3

\* The caller owns MaxObj elements, which it may push in any order.
MaxObj == 2

\* Values of the caller's elements are drawn from 1 .. MaxVal.
MaxVal == 2

\* A word the code never initialises holds some number in 0 .. MaxGarbage.
MaxGarbage == 1

\* ------------------------------------------------------------- data types

\* unsigned int arithmetic wraps.  The width of unsigned int is 32 bits; TLC's
\* integers are 32-bit signed, so the model wraps at 2^30: every index the
\* model compares a wrapped value with is below 2^30, as it is below 2^32.
UIntMod == 2^30

USub(a, b) == (a - b) % UIntMod

\* Heaps are constructed with a positive capacity.
Capacities == 1 .. MaxCapacity
Objs == 1 .. MaxObj
Values == 1 .. MaxVal
Garbage == 0 .. MaxGarbage

\* The null pointer: Node's default constructor value-initialises .first.
NULL == 0

\* Cells of `elements`.  Cells 0 .. capacity-1 are the array; the cells from
\* capacity on are the memory that follows it, which only a push on a full
\* heap writes.  No push writes beyond cell 2 (see get_pos_father).
MemTop == MaxCapacity + 2
Mem == 0 .. MemTop

MkNode(p, i) == [first |-> p, second |-> i]

VARIABLES
  capacity,   \* const unsigned int capacity
  elements,   \* Node* const elements
  nb_elem,    \* unsigned int nb_elem
  id_to_pos,  \* unsigned int* const id_to_pos
  id_free,    \* unsigned int* const id_free
  val,        \* the value of each of the caller's elements
  status,     \* "running"; "aborted": an assert failed; "crashed" and
              \* "undefined": the two ends of undefined behaviour
  op,         \* the last method called
  ret,        \* what the last call returned
  popped,     \* history: values returned by the pops since the last push
  created     \* history: bag of the Nodes pushed and not yet popped

vars == <<capacity, elements, nb_elem, id_to_pos, id_free, val, status, op, ret,
          popped, created>>

\* The heap proper, as the private methods see it.
Heap(e, n, ok) == [e |-> e, n |-> n, ok |-> ok]

\* An assert that fails: the process ends where it stands.
Abort(h) == [h EXCEPT !.ok = FALSE]

\* *(elements[pos].first)
Deref(h, pos) == val[h.e[pos].first]

\* The pre of lt, le, get_pos_left_son, get_pos_right_son: assert(i<nb_elem).
LegalPos(h, i) == i < h.n

lt(h, pos_1, pos_2) == Deref(h, pos_1) < Deref(h, pos_2)

le(h, pos_1, pos_2) == Deref(h, pos_1) <= Deref(h, pos_2)

get_pos_left_son(i) == (2 * i + 1) % UIntMod

get_pos_right_son(i) == (2 * i + 2) % UIntMod

\* assert(i<nb_elem-2), on unsigned int: nb_elem-2 wraps when nb_elem < 2.
FatherPre(h, i) == i < USub(h.n, 2)

\* (i-1)/2 on unsigned int.
get_pos_father(i) == USub(i, 1) \div 2

\* A faulty swap: it exchanges the element pointers and leaves each id in its
\* cell.
swap_first_only(h, pos_a, pos_b) ==
  IF pos_a <= h.n /\ pos_b <= h.n
  THEN [h EXCEPT !.e = [@ EXCEPT ![pos_a].first = h.e[pos_b].first,
                                 ![pos_b].first = h.e[pos_a].first]]
  ELSE Abort(h)

\* A faulty swap: it copies the Node of pos_a over pos_b and never stores the
\* saved Node back.
swap_overwrite(h, pos_a, pos_b) ==
  IF pos_a <= h.n /\ pos_b <= h.n
  THEN [h EXCEPT !.e = [@ EXCEPT ![pos_b] = h.e[pos_a]]]
  ELSE Abort(h)

\* swap exchanges the two Nodes and nothing else.
swap(h, pos_a, pos_b) ==
  IF pos_a <= h.n /\ pos_b <= h.n
  THEN [h EXCEPT !.e = [@ EXCEPT ![pos_a] = h.e[pos_b], ![pos_b] = h.e[pos_a]]]
  ELSE Abort(h)

\* The while loop of raise; each get_pos_father(pos) runs its assert.
RECURSIVE raise_loop(_, _)
raise_loop(h, pos) ==
  IF pos = 0 THEN h
  ELSE IF ~FatherPre(h, pos) THEN Abort(h)
  ELSE LET f == get_pos_father(pos) IN
       IF Deref(h, pos) < Deref(h, f)
       THEN LET h2 == swap(h, pos, f) IN
            IF h2.ok THEN raise_loop(h2, f) ELSE h2
       ELSE h

\* A faulty raise: it checks its assert and leaves the cell where it is.
raise_in_place(h, pos) == IF pos <= h.n THEN h ELSE Abort(h)

raise(h, pos) == IF pos <= h.n THEN raise_loop(h, pos) ELSE Abort(h)

\* lower: the while loop needs both sons to be live; after it, the one case of
\* a single left son that is the last live cell.
RECURSIVE lower(_, _)
lower(h, pos) ==
  IF ~h.ok THEN h
  ELSE IF ~LegalPos(h, pos) THEN Abort(h)
  ELSE LET l == get_pos_left_son(pos)
           r == get_pos_right_son(pos) IN
       IF r < h.n /\ l < h.n /\ (Deref(h, pos) > Deref(h, l) \/ Deref(h, pos) > Deref(h, r))
       THEN IF le(h, l, r)
            THEN lower(swap(h, pos, l), l)
            ELSE lower(swap(h, pos, r), r)
       ELSE IF l = USub(h.n, 1) /\ lt(h, l, pos)
            THEN swap(h, pos, l)
            ELSE h

is_empty(n) == n = 0

\* ------------------------------------------------------------------ state

\* What a new unsigned int[n] that nothing initialises may hold.  The model
\* draws one indeterminate word per array and fills the array with it.
Uninitialised(n) == {[i \in 0 .. n - 1 |-> g] : g \in Garbage}

\* Heap_Id(_capacity): elements holds capacity default-constructed Nodes,
\* (null, 0); nb_elem is 0; id_to_pos and id_free are new unsigned int[], which
\* nothing initialises.  The constructor's assert(is_valid()) passes: the heap
\* is empty.
Init ==
  /\ capacity \in Capacities
  /\ elements = [i \in Mem |-> MkNode(NULL, 0)]
  /\ nb_elem = 0
  /\ id_to_pos \in Uninitialised(capacity)
  /\ id_free \in Uninitialised(capacity)
  /\ val \in [Objs -> Values]
  /\ status = "running"
  /\ op = "new"
  /\ ret = 0
  /\ popped = << >>
  /\ created = EmptyBag

\* The body of push(v).  push has no return statement, which is undefined in
\* a function that returns unsigned int: the caller reads an indeterminate
\* value, or control runs off the end of the function and the process ends.
PushBody(v) ==
  LET node == MkNode(v, nb_elem)
      h0 == Heap([elements EXCEPT ![nb_elem] = node], nb_elem, TRUE)
      h1 == IF is_empty(nb_elem) THEN h0 ELSE raise(h0, nb_elem) IN
  /\ op' = "push"
  /\ elements' = h1.e
  /\ popped' = << >>
  /\ IF h1.ok
     THEN /\ nb_elem' = (nb_elem + 1) % UIntMod
          /\ created' = created (+) SetToBag({node})
          /\ \/ status' = "running" /\ ret' \in Garbage
             \/ status' = "crashed" /\ ret' = ret
     ELSE /\ status' = "aborted"
          /\ UNCHANGED <<nb_elem, ret, created>>
  /\ UNCHANGED <<capacity, id_to_pos, id_free, val>>

\* push(v), called with room left.
Push ==
  /\ status = "running"
  /\ nb_elem < capacity
  /\ \E v \in Objs : PushBody(v)

\* pop(), called on a heap that holds an element.
Pop ==
  /\ status = "running"
  /\ nb_elem > 0
  /\ LET min == elements[0]
         e1 == [elements EXCEPT ![0] = elements[USub(nb_elem, 1)]]
         n1 == USub(nb_elem, 1)
         h1 == IF n1 > 2 THEN lower(Heap(e1, n1, TRUE), 0) ELSE Heap(e1, n1, TRUE) IN
     /\ op' = "pop"
     /\ elements' = h1.e
     /\ nb_elem' = n1
     /\ IF h1.ok
        THEN /\ status' = "running"
             /\ ret' = min.first
             /\ popped' = Append(popped, val[min.first])
             /\ created' = created (-) SetToBag({min})
        ELSE /\ status' = "aborted"
             /\ UNCHANGED <<ret, popped, created>>
  /\ UNCHANGED <<capacity, id_to_pos, id_free, val>>

\* The ids of the live cells.
LiveIds == {elements[i].second : i \in 0 .. nb_elem - 1}

\* reposition(id), called with the id of a live cell: the body is empty.
Reposition ==
  /\ status = "running"
  /\ \E id \in LiveIds : op' = "reposition"
  /\ UNCHANGED <<capacity, elements, nb_elem, id_to_pos, id_free, val, status,
                 ret, popped, created>>

Next == Push \/ Pop \/ Reposition

Spec == Init /\ [][Next]_vars

\* --------------------------------------------- calls outside the contract

\* A Node read from outside the array: an indeterminate pointer and id.
StrayNodes == {MkNode(p, g) : p \in {NULL} \cup Objs, g \in Garbage}

\* push(v) on a full heap.  push tests nothing: elements[nb_elem] is a store
\* past the end of the array, which either lands in the memory that follows
\* it, after which push goes on as usual, or ends the process.
PushFull ==
  /\ status = "running"
  /\ nb_elem >= capacity
  /\ \/ \E v \in Objs : PushBody(v)
     \/ /\ status' = "crashed"
        /\ op' = "push"
        /\ UNCHANGED <<capacity, elements, nb_elem, id_to_pos, id_free, val, ret,
                       popped, created>>

\* pop() on an empty heap.  pop tests nothing: it reads elements[nb_elem-1]
\* with nb_elem-1 wrapped to the largest unsigned int, far outside the array,
\* which either ends the process or yields an indeterminate Node, and then
\* nb_elem-- wraps as well.  The model does not follow the process further.
PopEmpty ==
  /\ status = "running"
  /\ nb_elem = 0
  /\ op' = "pop"
  /\ \/ /\ status' = "crashed"
        /\ UNCHANGED <<elements, nb_elem>>
     \/ /\ status' = "undefined"
        /\ \E stray \in StrayNodes : elements' = [elements EXCEPT ![0] = stray]
        /\ nb_elem' = USub(nb_elem, 1)
  /\ UNCHANGED <<capacity, id_to_pos, id_free, val, ret, popped, created>>

\* The callers that also push on a full heap.
NextFull == Next \/ PushFull

SpecFull == Init /\ [][NextFull]_vars

\* The callers that also pop an empty heap.
NextEmpty == Next \/ PopEmpty

SpecEmpty == Init /\ [][NextEmpty]_vars

\* ------------------------------------------------------------- properties

Live == 0 .. nb_elem - 1

ValueAt(i) == val[elements[i].first]

\* The free ids, as the comment on id_free places them: the entries of id_free
\* at positions nb_elem .. capacity-1.
FreeIds == {id_free[j] : j \in nb_elem .. capacity - 1}

\* The Nodes of the live cells, as a bag.
LiveBag ==
  LET nodes == {elements[i] : i \in Live} IN
  [x \in nodes |-> Cardinality({i \in Live : elements[i] = x})]

\* C1: heap order.  In every state reached by push, pop and reposition calls
\* made within their preconditions, every live index i > 0 holds a value that
\* is at least the value of its father (i-1)/2.
HeapOrder ==
  \A i \in Live : i > 0 => ValueAt((i - 1) \div 2) <= ValueAt(i)

\* C1 happens: the second element pushed was the smaller one and raise has
\* moved it to the root.
HeapOrderWitness ==
  /\ nb_elem = 2
  /\ op = "push"
  /\ elements[0].second = 1
  /\ ValueAt(0) < ValueAt(1)

\* C2: index consistency.  Every live cell i carries an id k for which
\* id_to_pos[k] = i, so that id_to_pos[k] is live and holds id k.
IndexConsistency ==
  \A i \in Live :
    LET k == elements[i].second IN
    k \in DOMAIN id_to_pos /\ id_to_pos[k] = i

\* C3: the ids of the live cells are pairwise distinct.
LiveIdsDistinct ==
  \A i, j \in Live : i # j => elements[i].second # elements[j].second

\* C4: id partition.  The live ids and the free ids are disjoint, together
\* they are 0 .. capacity-1, and there are capacity - nb_elem free ids.
IdPartition ==
  /\ LiveIds \cap FreeIds = {}
  /\ LiveIds \cup FreeIds = 0 .. capacity - 1
  /\ Cardinality(FreeIds) = capacity - nb_elem

\* C5: min-extraction order.  No push of a value into a heap with room left
\* is stopped by an assert, so that n <= capacity values populate the heap,
\* and the values returned by the pops that follow come in non-decreasing
\* order.
MinExtractionOrder ==
  /\ status # "aborted"
  /\ \A i \in 1 .. Len(popped) - 1 : popped[i] <= popped[i + 1]

\* C6: pop on a non-empty heap returns the element of cell 0, whose value is
\* a minimum of the live values, takes one off nb_elem, and the id of that
\* element is afterwards a free id and the id of no live cell.
PopContract ==
  [][Pop =>
       /\ ret' = elements[0].first
       /\ \A i \in Live : ValueAt(0) <= ValueAt(i)
       /\ nb_elem' = nb_elem - 1
       /\ elements[0].second \in FreeIds'
       /\ elements[0].second \notin LiveIds']_vars

\* C7: capacity bound.  nb_elem never exceeds capacity, no cell from capacity
\* on is ever written, and a push on a full heap leaves the heap as it was,
\* with the process still running.
CapacityBound ==
  /\ [](nb_elem <= capacity)
  /\ [](\A i \in Mem : i >= capacity => elements[i] = MkNode(NULL, 0))
  /\ [][PushFull =>
         /\ UNCHANGED <<elements, nb_elem, id_to_pos, id_free>>
         /\ status' = "running"]_vars

\* C8: pop on an empty heap leaves the heap as it was, nb_elem still 0, with
\* the process still running.
PopEmptyRejected ==
  [][PopEmpty =>
       /\ UNCHANGED <<elements, nb_elem, id_to_pos, id_free>>
       /\ nb_elem' = 0
       /\ status' = "running"]_vars

\* C9: push(v) with room left returns an id k that was free, and afterwards
\* the cell at id_to_pos[k] holds v with id k and nb_elem is one more.
PushContract ==
  [][\A v \in Objs :
       (status = "running" /\ nb_elem < capacity /\ PushBody(v)) =>
         LET k == ret' IN
         /\ k \in FreeIds
         /\ k \in DOMAIN id_to_pos'
         /\ elements'[id_to_pos'[k]] = MkNode(v, k)
         /\ nb_elem' = nb_elem + 1]_vars

\* C10: id stability.  The live cells hold exactly the (element, id) Nodes
\* that push created and pop has not removed: no move of a cell, by swap,
\* raise, lower or pop, separates an element from its id.
IdStability == LiveBag = created

\* C10 happens: raise has swapped two Nodes and pop has then moved the last
\* cell, which holds the first element pushed with its id 0, to the root.
IdStabilityWitness ==
  /\ op = "pop"
  /\ nb_elem = 1
  /\ elements[0].second = 0
  /\ elements[1].second = 0
  /\ ret # elements[0].first

\* -------------------------------------------------- keys changed in place

\* The caller changes the value of one live element through its own reference
\* to it: the heap is in order, the element is held by exactly one live cell,
\* and the next thing the caller does is to call reposition.
Mutate ==
  /\ status = "running"
  /\ op # "mutate"
  /\ HeapOrder
  /\ \E i \in Live, x \in Values :
       LET o == elements[i].first IN
       /\ \A j \in Live : elements[j].first = o => j = i
       /\ x # val[o]
       /\ val' = [val EXCEPT ![o] = x]
  /\ op' = "mutate"
  /\ UNCHANGED <<capacity, elements, nb_elem, id_to_pos, id_free, status, ret,
                 popped, created>>

\* The callers that change a key and then call reposition, between calls of
\* push, pop and reposition.  reposition does not read its argument: whichever
\* live id it is given, the call is the one for the changed element.
NextMutate ==
  \/ Mutate
  \/ op = "mutate" /\ Reposition
  \/ op # "mutate" /\ Push
  \/ op # "mutate" /\ Pop
  \/ op # "mutate" /\ Reposition

SpecMutate == Init /\ [][NextMutate]_vars

\* C11: reposition correctness.  Once reposition has been called for a live
\* element whose value was changed, heap order holds for every live index; an
\* element whose value is now below every other live value is then at cell 0.
RepositionRestoresOrder ==
  op = "reposition" =>
    /\ HeapOrder
    /\ \A i \in Live :
         (\A j \in Live : j # i => ValueAt(i) < ValueAt(j)) => i = 0

\* ------------------------------------------------- reposition, any argument

\* reposition(id) with an id that no live cell carries: the body is empty, so
\* the call returns as any other call of reposition does.
RepositionInvalid ==
  /\ status = "running"
  /\ \E id \in (0 .. MemTop) \ LiveIds : op' = "reposition"
  /\ UNCHANGED <<capacity, elements, nb_elem, id_to_pos, id_free, val, status,
                 ret, popped, created>>

\* The callers that also call reposition with an id that is not live.
NextInvalid == Next \/ RepositionInvalid

SpecInvalid == Init /\ [][NextInvalid]_vars

\* C12: reposition with an id that is not live is rejected: the caller is told
\* of the invalid id, and the heap is left as it was.
RepositionInvalidRejected ==
  [][RepositionInvalid =>
       /\ UNCHANGED <<elements, nb_elem, id_to_pos, id_free>>
       /\ status' = "invalid id"]_vars

\* ------------------------------------------- private methods, called alone

\* Where an element lies in memory: is_valid compares Nodes, that is pairs,
\* and a pair compares its pointers first.  The model places the caller's
\* elements in the order of their numbers, after the null pointer.
Addr(p) == p

\* operator> of std::pair<Element*, unsigned int>: a > b is b < a, and pairs
\* compare first by .first and then by .second.
NodeGreater(a, b) ==
  \/ Addr(b.first) < Addr(a.first)
  \/ ~(Addr(a.first) < Addr(b.first)) /\ b.second < a.second

\* The cells is_valid reads: for each i below nb_elem-2, cell i and the cells
\* of its two sons, whether these are live or not.
is_valid_cells(n) ==
  IF n < 3 THEN {}
  ELSE UNION {{i, get_pos_right_son(i), get_pos_left_son(i)} : i \in 0 .. n - 3}

\* is_valid: true when at most 2 elements are held; otherwise false as soon as
\* the Node of some i below nb_elem-2 is greater than the Node of a son.
is_valid(h) ==
  \/ is_empty(h.n) \/ h.n = 1 \/ h.n = 2
  \/ \A i \in 0 .. USub(h.n, 2) - 1 :
       ~(\/ NodeGreater(h.e[i], h.e[get_pos_right_son(i)])
         \/ NodeGreater(h.e[i], h.e[get_pos_left_son(i)]))

\* is_valid(), called between two calls of the public methods (as the
\* assert(is_valid()) of the constructor does, and the one push comments out).
CallIsValid ==
  /\ status = "running"
  /\ op' = "is_valid"
  /\ ret' = IF is_valid(Heap(elements, nb_elem, TRUE)) THEN 1 ELSE 0
  /\ UNCHANGED <<capacity, elements, nb_elem, id_to_pos, id_free, val, status,
                 popped, created>>

\* get_pos_father(i), called for a legal position i.
CallFather(i) ==
  /\ status = "running"
  /\ i < nb_elem
  /\ op' = "get_pos_father"
  /\ IF FatherPre(Heap(elements, nb_elem, TRUE), i)
     THEN status' = "running" /\ ret' = get_pos_father(i)
     ELSE status' = "aborted" /\ ret' = ret
  /\ UNCHANGED <<capacity, elements, nb_elem, id_to_pos, id_free, val, popped,
                 created>>

CallFatherAny == \E i \in Mem : CallFather(i)

\* The public methods, and between them is_valid and get_pos_father.
NextPrivate == Next \/ CallIsValid \/ CallFatherAny

SpecPrivate == Init /\ [][NextPrivate]_vars

\* C13: is_valid returns true exactly when every live father is at most each
\* of its live sons, id_to_pos is consistent with the cells and id_free holds
\* the free ids; and it reads no cell from nb_elem on.
IsValidContract ==
  op = "is_valid" =>
    /\ (ret = 1) <=> (HeapOrder /\ IndexConsistency /\ IdPartition)
    /\ is_valid_cells(nb_elem) \subseteq Live

\* C18: get_pos_father, called for a legal position i, passes its assert and
\* returns a legal position: (i-1)/2 for i > 0, and 0 for the root.
FatherContract ==
  [][\A i \in Mem :
       CallFather(i) =>
         /\ status' = "running"
         /\ ret' = (IF i = 0 THEN 0 ELSE (i - 1) \div 2)
         /\ ret' < nb_elem]_vars

\* ------------------------------------------------ properties of the calls

\* push(v), called with room left, for a given v.
PushOf(v) == status = "running" /\ nb_elem < capacity /\ PushBody(v)

\* The heap push hands to raise: the new Node stored in cell nb_elem, nb_elem
\* not yet incremented.
PushedHeap(v) ==
  Heap([elements EXCEPT ![nb_elem] = MkNode(v, nb_elem)], nb_elem, TRUE)

\* The swaps the loop of raise makes from pos, up to the root or to the assert
\* that stops it.
RECURSIVE raise_swaps(_, _)
raise_swaps(h, pos) ==
  IF pos = 0 \/ ~FatherPre(h, pos) THEN 0
  ELSE LET f == get_pos_father(pos) IN
       IF Deref(h, pos) < Deref(h, f) /\ swap(h, pos, f).ok
       THEN 1 + raise_swaps(swap(h, pos, f), f)
       ELSE 0

\* The swaps lower makes from pos.
RECURSIVE lower_swaps(_, _)
lower_swaps(h, pos) ==
  IF ~h.ok \/ ~LegalPos(h, pos) THEN 0
  ELSE LET l == get_pos_left_son(pos)
           r == get_pos_right_son(pos) IN
       IF r < h.n /\ l < h.n /\ (Deref(h, pos) > Deref(h, l) \/ Deref(h, pos) > Deref(h, r))
       THEN IF le(h, l, r)
            THEN 1 + lower_swaps(swap(h, pos, l), l)
            ELSE 1 + lower_swaps(swap(h, pos, r), r)
       ELSE IF l = USub(h.n, 1) /\ lt(h, l, pos) THEN 1 ELSE 0

\* The height of the tree of n cells: the depth of cell n-1.
RECURSIVE Height(_)
Height(n) == IF n <= 1 THEN 0 ELSE 1 + Height(n \div 2)

\* C14: every call completes.  A push with room left and a pop of a heap that
\* holds an element return to their caller, rather than stop at an assert,
\* after at most as many swaps as the tree is high.
CallsReturn ==
  /\ [][\A v \in Objs :
          PushOf(v) =>
            /\ status' # "aborted"
            /\ raise_swaps(PushedHeap(v), nb_elem) <= Height(nb_elem + 1)]_vars
  /\ [][Pop =>
          /\ status' # "aborted"
          /\ lower_swaps(Heap([elements EXCEPT ![0] = elements[nb_elem - 1]],
                              nb_elem - 1, TRUE), 0) <= Height(nb_elem - 1)]_vars

\* C15: swap.  When the raise of a push swaps the new cell 1 with the root,
\* the two Nodes are exchanged and id_to_pos is brought up to date for both
\* ids: each of the two cells carries an id that id_to_pos maps to that cell;
\* every other cell, every other entry of id_to_pos and id_free are unchanged.
SwapContract ==
  [][\A v \in Objs :
       (PushOf(v) /\ nb_elem = 1 /\ val[v] < ValueAt(0)) =>
         /\ elements'[0] = MkNode(v, 1)
         /\ elements'[1] = elements[0]
         /\ \A i \in {0, 1} :
              /\ elements'[i].second \in DOMAIN id_to_pos'
              /\ id_to_pos'[elements'[i].second] = i
         /\ \A i \in Mem \ {0, 1} : elements'[i] = elements[i]
         /\ \A k \in DOMAIN id_to_pos \ {elements'[0].second, elements'[1].second} :
              id_to_pos'[k] = id_to_pos[k]
         /\ id_free' = id_free]_vars

\* C17: raising after push.  A push with room left is not stopped by an
\* assert; it leaves the new Node in cell nb_elem when its value is not below
\* its father's, and moves the father's Node there when it is; and it keeps
\* heap order.
RaiseContract ==
  [][\A v \in Objs :
       PushOf(v) =>
         LET f == (nb_elem - 1) \div 2 IN
         /\ status' # "aborted"
         /\ nb_elem > 0 /\ val[v] >= ValueAt(f) =>
              elements'[nb_elem] = MkNode(v, nb_elem)
         /\ nb_elem > 0 /\ val[v] < ValueAt(f) =>
              elements'[nb_elem] = elements[f]
         /\ HeapOrder => HeapOrder']_vars

\* C19: no assert fails while push is called with room left and pop with an
\* element held.
NoAssertFails == status # "aborted"

\* The elements of a bag of Nodes, as a bag: each Node counts for its pointer.
ElementBag(b) ==
  [p \in {x.first : x \in DOMAIN b} |->
     BagCardinality([x \in {y \in DOMAIN b : y.first = p} |-> b[x]])]

\* The elements of the live cells, as a bag.
LiveElements ==
  [p \in {elements[i].first : i \in Live} |->
     Cardinality({i \in Live : elements[i].first = p})]

\* C20: content preservation.  The elements held in the live cells are, with
\* their multiplicities, the elements pushed and not yet returned by pop.
ContentPreserved == LiveElements = ElementBag(created)

\* The first pop of a heap of two whose second push swapped: the first pushed
\* Node, id 0, went down to cell 1 and is now moved to the root.
ContentPreservedWitness ==
  /\ op = "pop" /\ status = "running"
  /\ Len(popped) = 1 /\ nb_elem = 1
  /\ elements[0].second = 0

\* ------------------------------------------------- lower, taken on its own

\* The arrays of n live Nodes: any elements in the cells, with the ids
\* 0 .. n-1, each in one cell, and default Nodes behind them.
Arrays(n) ==
  {e \in [Mem -> [first : {NULL} \cup Objs, second : 0 .. MaxCapacity - 1]] :
     /\ \A i \in 0 .. n - 1 : e[i].first \in Objs /\ e[i].second < n
     /\ \A i, j \in 0 .. n - 1 : e[i].second = e[j].second => i = j
     /\ \A i \in Mem : i >= n => e[i] = MkNode(NULL, 0)}

\* A heap of any count up to its capacity, in any arrangement: what lower and
\* the lowering step of pop are handed.
InitLower ==
  /\ capacity \in Capacities
  /\ nb_elem \in 0 .. capacity
  /\ elements \in Arrays(nb_elem)
  /\ id_to_pos \in Uninitialised(capacity)
  /\ id_free \in Uninitialised(capacity)
  /\ val \in [Objs -> Values]
  /\ status = "running"
  /\ op = "new"
  /\ ret = 0
  /\ popped = << >>
  /\ created = [x \in {elements[i] : i \in 0 .. nb_elem - 1} |-> 1]

\* Heap order holds wherever pos is not the father, and the sons of pos are
\* not below the father of pos.
OrderExceptAt(pos) ==
  /\ \A i \in Live : (i > 0 /\ (i - 1) \div 2 # pos) => ValueAt((i - 1) \div 2) <= ValueAt(i)
  /\ \A i \in Live : (i > 0 /\ (i - 1) \div 2 = pos /\ pos > 0) =>
       ValueAt((pos - 1) \div 2) <= ValueAt(i)

\* lower(pos), called by the class at a legal position whose Node alone may
\* be out of place.
CallLower(pos) ==
  /\ status = "running"
  /\ pos < nb_elem
  /\ OrderExceptAt(pos)
  /\ LET h1 == lower(Heap(elements, nb_elem, TRUE), pos) IN
     /\ elements' = h1.e
     /\ status' = IF h1.ok THEN "running" ELSE "aborted"
  /\ op' = "lower"
  /\ UNCHANGED <<capacity, nb_elem, id_to_pos, id_free, val, ret, popped, created>>

CallLowerAny == \E pos \in Mem : CallLower(pos)

NextLower == Pop \/ CallLowerAny

SpecLower == InitLower /\ [][NextLower]_vars

\* C16: lowering restores heap order.  After lower(pos) on a heap in order
\* except at pos, and after the pop of a heap in order, whatever the count
\* left, the call has returned and every live index i > 0 holds a value that
\* is at least its father's.
LowerRestoresOrder ==
  [][((Pop /\ HeapOrder) \/ CallLowerAny) =>
       (status' = "running" /\ HeapOrder')]_vars

\* The same of lower alone.
LowerAloneRestoresOrder ==
  [][CallLowerAny => (status' = "running" /\ HeapOrder')]_vars

====
